---- MODULE Spec2Model ----
(***************************************************************************)
(* The States registry of statemachine/states.py: an insertion-ordered,    *)
(* id-keyed collection of State objects, and its Enum-based constructor    *)
(* States.from_enum.                                                       *)
(*                                                                         *)
(* Python objects are modelled with their identity where the code depends  *)
(* on it: every dict lives in a heap cell and a registry holds a reference *)
(* to a cell (self._states), so that two registries handed the same dict   *)
(* share it.  A dict is the sequence of its (key, val) entries in          *)
(* insertion order.                                                        *)
(***************************************************************************)
EXTENDS Naturals, Sequences, FiniteSets

VARIABLES
    heap,      \* heap[ref]: the dict object with reference ref
    _states,   \* _states[r]: registry r's self._states, a reference into heap
    order,     \* history: order[r] = the ids in order of first insertion into r
    input,     \* history: input[r] = the mapping r was constructed from, as it was then
    last       \* the last call made, its arguments and what it returned

vars == <<heap, _states, order, input, last>>

-----------------------------------------------------------------------------
(* Bounds *)

MaxLen == 3        \* a mapping never holds more entries than this
NumValues == 2     \* the scalar values are 1..NumValues
MaxEnumLen == 2    \* constants of an enumeration

-----------------------------------------------------------------------------
(* Values *)

\* Names the registry object itself exposes: ordinary attribute lookup finds
\* them before __getattr__ is ever consulted.
Reserved == {"append", "items", "from_enum", "_states"}

Ids == {"a", "b", "items"}
PairIds == {"a", "b"}
EnumNames == {"a", "b", "items"}

\* A State's value is either a scalar or an Enum member (kept by identity).
Scalar(v) == [kind |-> "scalar", enum |-> "", name |-> "", val |-> v]
EnumInstance(e) == [kind |-> "enum", enum |-> e.enum, name |-> e.name, val |-> e.val]
ScalarValues == {Scalar(v) : v \in 1..NumValues}

\* State(...): the entity, with the id it is registered under.
State(id, value, initial, final) ==
    [id |-> id, value |-> value, initial |-> initial, final |-> final]

Entities == {State(i, v, FALSE, FALSE) : i \in Ids, v \in ScalarValues}
PairEntities == {State(i, v, FALSE, FALSE) : i \in PairIds, v \in ScalarValues}

\* An Enum member is one object per (class, name); None is an object of its own.
Const(enum, name, val) == [enum |-> enum, name |-> name, val |-> val]
NoneObj == Const("", "None", 0)

\* a is b
Is(a, b) == a.enum = b.enum /\ a.name = b.name

\* a == b for Enum members and None: Enum.__eq__ is identity.
PyEq(a, b) == Is(a, b)

\* x in set(...): a member of the set equal to x.
InSet(x, S) == \E y \in S : PyEq(x, y)

\* The enumerations: what iterating the Enum class yields, in declaration
\* order, the members having distinct names and distinct values.
RECURSIVE EnumTypesOver(_)
EnumTypesOver(n) ==
    IF n = 0 THEN {<<>>}
    ELSE LET shorter == EnumTypesOver(n - 1)
         IN  shorter \cup
             {Append(t, Const("Status", nm, v)) :
                 t \in {x \in shorter : Len(x) = n - 1},
                 nm \in EnumNames, v \in 1..NumValues}

EnumTypes ==
    {t \in EnumTypesOver(MaxEnumLen) :
        \A i, j \in DOMAIN t :
            (t[i].name = t[j].name \/ t[i].val = t[j].val) => i = j}

Members(t) == {t[i] : i \in DOMAIN t}

\* The constants a caller may name as initial or final: the members, and for
\* each the constant of another Enum class with the same name and value.
Twin(c) == Const("Other", c.name, c.val)
Selectable(t) == Members(t) \cup {Twin(c) : c \in Members(t)} \cup {Const("Other", "z", 1)}

\* The final argument: one object (None when omitted) or a collection.
Obj(x) == [kind |-> "obj", obj |-> x, coll |-> {}]
Coll(S) == [kind |-> "coll", obj |-> NoneObj, coll |-> S]
FinalArgs(t) ==
    {Obj(NoneObj)} \cup {Obj(c) : c \in Selectable(t)}
        \cup {Coll(S) : S \in SUBSET (Members(t) \cup {Twin(c) : c \in Members(t)})}

-----------------------------------------------------------------------------
(* The dict operations the class uses *)

Entry(k, v) == [key |-> k, val |-> v]

\* name in self._states
DictHas(d, k) == \E i \in DOMAIN d : d[i].key = k

\* self._states[name]
DictGet(d, k) == d[CHOOSE i \in DOMAIN d : d[i].key = k].val

\* Assignment that moves a replaced key to the end.
DictSetMoveToEnd(d, k, v) ==
    Append(SelectSeq(d, LAMBDA x : x.key # k), Entry(k, v))

\* d[k] = v: an existing key keeps its position, a new key goes last.
DictSet(d, k, v) ==
    IF DictHas(d, k)
    THEN [i \in DOMAIN d |-> IF d[i].key = k THEN Entry(k, v) ELSE d[i]]
    ELSE Append(d, Entry(k, v))

Keys(d) == [i \in DOMAIN d |-> d[i].key]

Reverse(s) == [i \in DOMAIN s |-> s[Len(s) + 1 - i]]

\* The mappings a caller may pass: keys are the State ids (docstring of __init__).
RECURSIVE MappingsOver(_, _)
MappingsOver(ents, n) ==
    IF n = 0 THEN {<<>>}
    ELSE LET shorter == MappingsOver(ents, n - 1)
         IN  shorter \cup
             {Append(d, Entry(e.id, e)) :
                 d \in {x \in shorter : Len(x) = n - 1},
                 e \in ents}

WellFormed(d) ==
    /\ \A i \in DOMAIN d : d[i].key = d[i].val.id
    /\ \A i, j \in DOMAIN d : d[i].key = d[j].key => i = j

Mappings(ents, n) == {d \in MappingsOver(ents, n) : WellFormed(d)}

-----------------------------------------------------------------------------
(* class States *)

\* self._states = states if states is not None else {}
\* ref = 0 stands for None: the registry then gets the fresh cell `fresh`.
__init__(ref, fresh) == IF ref # 0 THEN ref ELSE fresh

__len__(d) == Len(d)

__iter__Reversed(d) == [i \in DOMAIN d |-> d[Len(d) + 1 - i].val]

\* iter(self._states.values())
__iter__(d) == [i \in DOMAIN d |-> d[i].val]

\* self._states.items()
items(d) == [i \in DOMAIN d |-> <<d[i].key, d[i].val>>]

appendMoveToEnd(d, state) == DictSetMoveToEnd(d, state.id, state)

appendAlways(d, state) == Append(d, Entry(state.id, state))

\* self._states[state.id] = state
append(d, state) == DictSet(d, state.id, state)

Entity(e) == [kind |-> "entity", ent |-> e]
Member(n) == [kind |-> "member", name |-> n]
Raise(exc) == [kind |-> "raise", exc |-> exc]

\* def __getattr__(self, name)
__getattr__(d, name) ==
    IF DictHas(d, name)
    THEN Entity(DictGet(d, name))
    ELSE Raise("AttributeError")

getattrUnshadowed(d, name) == __getattr__(d, name)

\* states.<name>: the object's own attributes win; __getattr__ is the fallback.
getattr(d, name) ==
    IF name \in Reserved THEN Member(name) ELSE __getattr__(d, name)

\* State.__eq__
StateEq(a, b) == a = b

\* list == list: same length and equal element by element.
RECURSIVE ListEq(_, _)
ListEq(s, t) ==
    IF Len(s) # Len(t) THEN FALSE
    ELSE IF Len(s) = 0 THEN TRUE
    ELSE StateEq(Head(s), Head(t)) /\ ListEq(Tail(s), Tail(t))

__eq__Unordered(d, other) ==
    /\ \A i \in DOMAIN d : \E j \in DOMAIN other : StateEq(d[i].val, other[j].val)
    /\ \A j \in DOMAIN other : \E i \in DOMAIN d : StateEq(d[i].val, other[j].val)

\* list(self) == list(other)
__eq__(d, other) == ListEq(__iter__(d), __iter__(other))

\* utils.ensure_iterable: a collection as it is, a single object (None
\* included) as the one-element list holding it.
ensure_iterable(obj) == IF obj.kind = "coll" THEN obj.coll ELSE {obj.obj}

from_enumInitialByName(enum_type, initial, final, use_enum_instance) ==
    LET final_set == ensure_iterable(final)
    IN  [i \in DOMAIN enum_type |->
            LET e == enum_type[i]
            IN  Entry(e.name,
                      State(e.name,
                            IF use_enum_instance THEN EnumInstance(e) ELSE Scalar(e.val),
                            e.name = initial.name,
                            InSet(e, final_set)))]

from_enumReversed(enum_type, initial, final, use_enum_instance) ==
    LET final_set == ensure_iterable(final)
    IN  [i \in DOMAIN enum_type |->
            LET e == enum_type[Len(enum_type) + 1 - i]
            IN  Entry(e.name,
                      State(e.name,
                            IF use_enum_instance THEN EnumInstance(e) ELSE Scalar(e.val),
                            Is(e, initial),
                            InSet(e, final_set)))]

from_enumScalarOnly(enum_type, initial, final, use_enum_instance) ==
    LET final_set == ensure_iterable(final)
    IN  [i \in DOMAIN enum_type |->
            LET e == enum_type[i]
            IN  Entry(e.name,
                      State(e.name, Scalar(e.val), Is(e, initial), InSet(e, final_set)))]

\* The dict comprehension of from_enum, in the order of `for e in enum_type`.
from_enum(enum_type, initial, final, use_enum_instance) ==
    LET final_set == ensure_iterable(final)
    IN  [i \in DOMAIN enum_type |->
            LET e == enum_type[i]
            IN  Entry(e.name,
                      State(e.name,
                            IF use_enum_instance THEN EnumInstance(e) ELSE Scalar(e.val),
                            Is(e, initial),
                            InSet(e, final_set)))]

-----------------------------------------------------------------------------
(* Calls on a registry r *)

Dict(r) == heap[_states[r]]

AppendCall(r, e) ==
    /\ r \in DOMAIN _states
    /\ Len(Dict(r)) < MaxLen \/ DictHas(Dict(r), e.id)
    /\ heap' = [heap EXCEPT ![_states[r]] = append(@, e)]
    /\ order' = [order EXCEPT ![r] =
                    IF \E i \in DOMAIN @ : @[i] = e.id THEN @ ELSE Append(@, e.id)]
    /\ last' = [op |-> "append", reg |-> r, arg |-> e]
    /\ UNCHANGED <<_states, input>>

GetattrCall(r, name) ==
    /\ r \in DOMAIN _states
    /\ last' = [op |-> "getattr", reg |-> r, name |-> name,
                res |-> getattr(Dict(r), name)]
    /\ UNCHANGED <<heap, _states, order, input>>

IterCall(r) ==
    /\ r \in DOMAIN _states
    /\ last' = [op |-> "iter", reg |-> r, res |-> __iter__(Dict(r))]
    /\ UNCHANGED <<heap, _states, order, input>>

ItemsCall(r) ==
    /\ r \in DOMAIN _states
    /\ last' = [op |-> "items", reg |-> r, res |-> items(Dict(r))]
    /\ UNCHANGED <<heap, _states, order, input>>

LenCall(r) ==
    /\ r \in DOMAIN _states
    /\ last' = [op |-> "len", reg |-> r, res |-> __len__(Dict(r))]
    /\ UNCHANGED <<heap, _states, order, input>>

EqCall(r, other) ==
    /\ r \in DOMAIN _states
    /\ other \in DOMAIN _states
    /\ last' = [op |-> "eq", reg |-> r, other |-> other,
                res |-> __eq__(Dict(r), Dict(other))]
    /\ UNCHANGED <<heap, _states, order, input>>

\* States.from_enum(...): the comprehension builds a new dict, cls(...) a new
\* registry around it.
FromEnumCall(enum_type, initial, final, use_enum_instance) ==
    LET d == from_enum(enum_type, initial, final, use_enum_instance)
        ref == Len(heap) + 1
        r == Len(_states) + 1
    IN  /\ heap' = Append(heap, d)
        /\ _states' = Append(_states, __init__(ref, ref + 1))
        /\ order' = Append(order, Keys(d))
        /\ input' = Append(input, [enum_type |-> enum_type, initial |-> initial,
                                   final |-> final,
                                   use_enum_instance |-> use_enum_instance])
        /\ last' = [op |-> "from_enum", reg |-> r]

\* The caller assigns into a mapping it passed to States(...).
CallerSetItem(ref, e) ==
    /\ Len(heap[ref]) < MaxLen \/ DictHas(heap[ref], e.id)
    /\ heap' = [heap EXCEPT ![ref] = DictSet(@, e.id, e)]
    /\ last' = [op |-> "caller_set", ref |-> ref, arg |-> e]
    /\ UNCHANGED <<_states, order, input>>

-----------------------------------------------------------------------------
(* One registry, constructed from a caller's mapping, then used *)

Init ==
    /\ \E m \in Mappings(Entities, MaxLen) :
        /\ heap = <<m>>
        /\ order = <<Keys(m)>>
        /\ input = <<m>>
    /\ _states = <<__init__(1, 2)>>
    /\ last = [op |-> "init", reg |-> 1]

Next ==
    \/ \E e \in Entities : AppendCall(1, e)
    \/ \E name \in Ids : GetattrCall(1, name)
    \/ IterCall(1)
    \/ ItemsCall(1)
    \/ LenCall(1)

Spec == Init /\ [][Next]_vars

-----------------------------------------------------------------------------
(* Registries over two caller mappings: registries 1 and 2 are both constructed *)
(* from the first mapping, registry 3 from the second, which holds the entries *)
(* of the first in the same or in reversed order.                              *)

InitPair ==
    /\ \E ma \in Mappings(PairEntities, MaxLen) :
       \E mb \in {ma, Reverse(ma)} :
        /\ heap = <<ma, mb>>
        /\ order = <<Keys(ma), Keys(ma), Keys(mb)>>
        /\ input = <<ma, ma, mb>>
    /\ _states = <<__init__(1, 3), __init__(1, 3), __init__(2, 3)>>
    /\ last = [op |-> "init", reg |-> 1]

NextPair ==
    \/ \E r \in {1, 3} : \E e \in PairEntities : AppendCall(r, e)
    \/ \E r \in {1, 3} : \E other \in 1..3 : r # other /\ EqCall(r, other)
    \/ \E e \in PairEntities : CallerSetItem(1, e)

SpecPair == InitPair /\ [][NextPair]_vars

-----------------------------------------------------------------------------
(* from_enum: registry 1 is States(), registry 2 the one from_enum returns *)

InitEnum ==
    /\ heap = << <<>> >>
    /\ _states = <<__init__(0, 1)>>
    /\ order = << <<>> >>
    /\ input = << <<>> >>
    /\ last = [op |-> "init", reg |-> 1]

NextEnum ==
    \/ /\ Len(_states) = 1
       /\ \E t \in EnumTypes :
          \E initial \in Selectable(t) :
          \E final \in FinalArgs(t) :
          \E use_enum_instance \in BOOLEAN :
              FromEnumCall(t, initial, final, use_enum_instance)
    \/ \E name \in EnumNames \cup {"missing"} : GetattrCall(2, name)
    \/ \E r, other \in 1..2 : EqCall(r, other)
    \/ IterCall(2)
    \/ ItemsCall(2)
    \/ LenCall(2)

SpecEnum == InitEnum /\ [][NextEnum]_vars

-----------------------------------------------------------------------------
(* Properties of one registry *)

IdsOf(seq) == [i \in DOMAIN seq |-> seq[i].id]

\* C1: iteration yields the entities in the order in which their ids were first
\* inserted (the mapping's order, then newly appended ids in append order),
\* items() yields the (id, entity) pairs in that same order, and a traversal
\* repeated with no append in between yields the same sequence.
IterationInInsertionOrder ==
    /\ []((last.op = "iter" =>
               /\ IdsOf(last.res) = order[last.reg]
               /\ last.res = __iter__(Dict(last.reg)))
           /\ (last.op = "items" =>
               /\ [i \in DOMAIN last.res |-> last.res[i][1]] = order[last.reg]
               /\ [i \in DOMAIN last.res |-> last.res[i][2]] = __iter__(Dict(last.reg))))
    /\ [][last.op \in {"iter", "items"} /\ last'.op = last.op /\ last'.reg = last.reg
            => last'.res = last.res]_vars

\* An iteration after a replacement and after the append of a new id.
IterationInInsertionOrder_Witness ==
    /\ last.op = "iter"
    /\ Len(input[1]) = 2
    /\ Len(last.res) = 3
    /\ last.res[1] # input[1][1].val
    /\ last.res[2] = input[1][2].val

\* C2: append of an id already present replaces the entity at its position and
\* changes neither the length nor any other entry; append of an absent id adds
\* the entity at the end and the length grows by one.
AppendReplacesInPlace ==
    [][last'.op = "append" =>
        LET r == last'.reg
            e == last'.arg
            d == heap[_states[r]]
            d2 == heap'[_states'[r]]
        IN  IF \E i \in DOMAIN d : d[i].val.id = e.id
            THEN /\ Len(d2) = Len(d)
                 /\ \A i \in DOMAIN d :
                        IF d[i].val.id = e.id THEN d2[i].val = e ELSE d2[i] = d[i]
            ELSE /\ Len(d2) = Len(d) + 1
                 /\ d2[Len(d2)].val = e
                 /\ \A i \in DOMAIN d : d2[i] = d[i]]_vars

\* [A,B,C] after append(B'): the middle entry is replaced by a different entity.
AppendReplacesInPlace_Witness ==
    /\ last.op = "append"
    /\ Len(input[1]) = 3
    /\ Len(Dict(1)) = 3
    /\ Dict(1)[2].val = last.arg
    /\ input[1][2].val # last.arg
    /\ Dict(1)[1] = input[1][1]
    /\ Dict(1)[3] = input[1][3]

\* C3: a registry never holds two entities with the same id, and every entry is
\* stored under the key equal to its entity's id.
OneEntryPerId ==
    \A r \in DOMAIN _states :
        LET d == Dict(r)
        IN  /\ \A i, j \in DOMAIN d : d[i].val.id = d[j].val.id => i = j
            /\ \A i \in DOMAIN d : d[i].key = d[i].val.id

\* An append of an id that was present, with a different entity, has happened.
OneEntryPerId_Witness ==
    /\ last.op = "append"
    /\ \E i \in DOMAIN input[1] :
        /\ input[1][i].key = last.arg.id
        /\ input[1][i].val # last.arg
    /\ Len(Dict(1)) = Len(input[1])

\* C8: lookup of a name that is not reserved returns the entity with that id
\* when one is registered and otherwise fails with a dedicated NotFound error,
\* which is not the generic missing-attribute error; the registry is unchanged.
LookupNotFoundIsDedicated ==
    [][last'.op = "getattr" /\ last'.name \notin Reserved =>
        LET d == heap[_states[last'.reg]]
            hit == {i \in DOMAIN d : d[i].val.id = last'.name}
        IN  /\ hit # {} => \E i \in hit : last'.res = Entity(d[i].val)
            /\ hit = {} => /\ last'.res.kind = "raise"
                           /\ last'.res.exc # "AttributeError"
            /\ heap' = heap
            /\ _states' = _states]_vars

\* C9: an entity whose id is a name the registry itself exposes is not what
\* named lookup of that id returns (the registry's own member is), yet it is
\* present in items() and in iteration.
ReservedIdIsShadowed ==
    last.op = "getattr" /\ last.name \in Reserved /\ DictHas(Dict(last.reg), last.name)
    => LET d == Dict(last.reg)
       IN  /\ last.res = Member(last.name)
           /\ \E i \in DOMAIN d :
                /\ d[i].val.id = last.name
                /\ items(d)[i] = <<last.name, d[i].val>>
                /\ __iter__(d)[i] = d[i].val

ReservedIdIsShadowed_Witness ==
    /\ last.op = "getattr"
    /\ last.name = "items"
    /\ DictHas(Dict(1), "items")
    /\ Len(Dict(1)) >= 2

-----------------------------------------------------------------------------
(* Properties of registries sharing or not sharing a mapping *)

\* C7: two registries are equal iff their iteration sequences have the same
\* length and are equal position by position; registries holding identical
\* ordered entries are equal, and a registry holding the same (two or more)
\* entries in reversed order is not equal to the original.
EqualityIsOrderedElementwise ==
    last.op = "eq" =>
        LET s == __iter__(Dict(last.reg))
            t == __iter__(Dict(last.other))
        IN  /\ last.res <=> (Len(s) = Len(t) /\ \A i \in 1..Len(s) : s[i] = t[i])
            /\ Dict(last.other) = Dict(last.reg) => last.res
            /\ Len(s) >= 2 /\ Dict(last.other) = Reverse(Dict(last.reg)) => ~last.res

\* Registry 3 was built from registry 1's input reversed, and compares unequal.
EqualityIsOrderedElementwise_Witness ==
    /\ last.op = "eq"
    /\ last.reg = 1
    /\ last.other = 3
    /\ Len(input[1]) = 2
    /\ input[3] = Reverse(input[1])
    /\ Dict(1) = input[1]
    /\ Dict(3) = input[3]
    /\ ~last.res

\* C10: append on a registry leaves the caller's mappings unchanged and leaves
\* unchanged every other registry, also one constructed from the same mapping;
\* a later change of a mapping by the caller changes no registry.
RegistryOwnsItsEntries ==
    [][/\ last'.op = "append" =>
            /\ heap'[1] = heap[1]
            /\ heap'[2] = heap[2]
            /\ \A r \in DOMAIN _states :
                    r # last'.reg => items(heap'[_states'[r]]) = items(heap[_states[r]])
       /\ last'.op = "caller_set" =>
            \A r \in DOMAIN _states :
                items(heap'[_states'[r]]) = items(heap[_states[r]])]_vars

-----------------------------------------------------------------------------
(* Properties of from_enum *)

FromEnumReturned == Len(_states) = 2

\* Whether constant c is designated by the final argument f.
Designated(c, f) ==
    IF f.kind = "coll" THEN c \in f.coll ELSE f.obj # NoneObj /\ c = f.obj

\* C4: from_enum returns a registry in which an entity is initial iff its
\* constant is the designated initial constant itself, and final iff its
\* constant belongs to the final selector (a single constant counting as the
\* collection of it, an omitted selector as none); so exactly one entity is
\* initial when the initial constant is a member and none when it is not.
FromEnumMarksInitialAndFinal ==
    /\ last.op = "from_enum" => FromEnumReturned /\ last.reg = 2
    /\ FromEnumReturned =>
        LET a == input[2]
            t == a.enum_type
            d == Dict(2)
        IN  /\ \A c \in Members(t) :
                \E i \in DOMAIN d :
                    /\ d[i].key = c.name
                    /\ d[i].val.initial <=> c = a.initial
                    /\ d[i].val.final <=> Designated(c, a.final)
            /\ \A i \in DOMAIN d : \E c \in Members(t) : d[i].key = c.name
            /\ Cardinality({i \in DOMAIN d : d[i].val.initial})
                    = IF a.initial \in Members(t) THEN 1 ELSE 0

\* The initial selector is another class's constant with the first member's
\* name and value, the final selector the single second member.
FromEnumMarksInitialAndFinal_Witness ==
    /\ FromEnumReturned
    /\ Len(input[2].enum_type) = 2
    /\ input[2].initial = Twin(input[2].enum_type[1])
    /\ input[2].final = Obj(input[2].enum_type[2])
    /\ ~Dict(2)[1].val.initial
    /\ Dict(2)[2].val.final

ValueOfMode(res, B, use_enum_instance) ==
    /\ res.kind = "entity"
    /\ res.ent.value = IF use_enum_instance THEN EnumInstance(B) ELSE Scalar(B.val)

\* C6 as stated: for every constant B, the entity looked up under B's name has
\* B's scalar as value in scalar mode and B itself in identity mode.
ValueModeOfEveryConstant ==
    FromEnumReturned /\ last.op = "getattr" =>
        \A B \in Members(input[2].enum_type) :
            B.name = last.name => ValueOfMode(last.res, B, input[2].use_enum_instance)

\* C6, amended: the same for every constant B whose name is not a name the
\* registry object itself exposes.
ValueModeOfUnshadowedConstant ==
    FromEnumReturned /\ last.op = "getattr" /\ last.name \notin Reserved =>
        \A B \in Members(input[2].enum_type) :
            B.name = last.name => ValueOfMode(last.res, B, input[2].use_enum_instance)

\* Identity mode, lookup of the second of two constants.
ValueModeOfUnshadowedConstant_Witness ==
    /\ FromEnumReturned
    /\ last.op = "getattr"
    /\ Len(input[2].enum_type) = 2
    /\ input[2].use_enum_instance
    /\ last.name = input[2].enum_type[2].name
    /\ last.name \notin Reserved
    /\ last.res.kind = "entity"
    /\ last.res.ent.value = EnumInstance(input[2].enum_type[2])

====
